---- MODULE Spec2Model ----
(***************************************************************************)
(* Model of control-plane/tenancy/namespace/namespace.go: EnsureDeleted    *)
(* and EnsureExists reconcile a Consul namespace against the remote        *)
(* resource service through Read, Write and Delete.  Callers run           *)
(* concurrently; each remote call is one atomic step of the remote         *)
(* service, and the module holds no state of its own between calls.        *)
(***************************************************************************)
EXTENDS Integers, Sequences, FiniteSets, TLC

\* ------------------------------------------------------------------ bounds
NumProcs == 2
MaxCalls == 2

Procs == 1..NumProcs

\* --------------------------------------------------------------- constants
\* Strings that the code formats (%q) are sequences of characters.
WildcardNamespace == <<"*">>
DefaultNamespaceName == <<"d", "e", "f", "a", "u", "l", "t">>
DeletionTimestampKey == "deletionTimestamp"
NamespaceType == [Group |-> "tenancy", GroupVersion |-> "v2beta1", Kind |-> "Namespace"]

Partitions == {"ap1", "ap2"}
ManagedNames == {<<"n", "s", "1">>}
Namespaces == {WildcardNamespace, DefaultNamespaceName} \cup ManagedNames

\* ------------------------------------------------------------ Go values
\* map[string]string: a nil map and an empty map are different values.
NilMap == [isNil |-> TRUE, kv |-> <<>>]
MakeMap(f) == [isNil |-> FALSE, kv |-> f]

\* error values: nil, a gRPC status error, any other error of the client,
\* and the two shapes fmt.Errorf builds in this file.
NilErr == [kind |-> "nil", msg |-> <<>>]
StatusErr(c) == [kind |-> "status", code |-> c, msg |-> <<"rpc error: code = ", c>>]
PlainErr == [kind |-> "plain", msg |-> <<"context canceled">>]

\* status.Code(err): OK for nil, the code of a status error, Unknown otherwise.
Code(e) ==
  IF e.kind = "nil" THEN "OK"
  ELSE IF e.kind = "status" THEN e.code
  ELSE "Unknown"

\* strconv.Quote, as used by the %q verb: the text between double quotes,
\* with double quotes and backslashes escaped.
RECURSIVE QuoteBody(_)
QuoteBody(s) ==
  IF s = <<>> THEN <<>>
  ELSE (IF Head(s) = "\"" THEN <<"\\", "\"">>
        ELSE IF Head(s) = "\\" THEN <<"\\", "\\">>
        ELSE <<Head(s)>>) \o QuoteBody(Tail(s))

Quote(s) == <<"\"">> \o QuoteBody(s) \o <<"\"">>

\* fmt.Errorf(prefix + "%w", e): message is prefix then e's message, and e
\* is kept as the cause that errors.Unwrap returns.
ErrorfW(prefix, e) == [kind |-> "wrap", msg |-> <<prefix>> \o e.msg, cause |-> e]

\* pbresource.ID
ID(n, a) == [Name |-> n, Type |-> NamespaceType, Tenancy |-> [Partition |-> a]]
Ids == {ID(n, a) : n \in Namespaces, a \in Partitions}

NoResponse == [isNil |-> TRUE]
ReadResponse(res) == [isNil |-> FALSE, Resource |-> res]

VARIABLES
  remote,   \* the resource service's store: Id -> [present, Metadata]
  pc,       \* per caller: "idle", "read", "delete", "write", "done"
  op,       \* per caller: the operation running, "EnsureDeleted" / "EnsureExists"
  ap,       \* per caller: argument ap
  ns,       \* per caller: argument ns
  rsp,      \* per caller: local rsp
  err,      \* per caller: local err (last remote answer)
  ret,      \* per caller: the returned (created, error)
  calls,    \* per caller: the remote requests issued by the running call
  rd,       \* per caller: what the running call's Read answered
  prev,     \* per caller: the call completed just before the running one
  ncalls    \* number of calls started so far, by all callers

vars == <<remote, pc, op, ap, ns, rsp, err, ret, calls, rd, prev, ncalls>>

\* ------------------------------------------------- the resource service
Absent == [present |-> FALSE, Metadata |-> NilMap]
Stored(m) == [present |-> TRUE, Metadata |-> m]

ExternalSource == "external-source" :> "kubernetes"

\* Metadata of records found in the store at the start.
InitMetadata ==
  { NilMap,
    MakeMap(<<>>),
    MakeMap(DeletionTimestampKey :> "") }

\* Errors the client may answer besides NotFound.
RemoteFailures == {StatusErr("Unavailable"), PlainErr}

HasDeletionTimestamp(m) == ~m.isNil /\ DeletionTimestampKey \in DOMAIN m.kv

\* Read: the stored record, NotFound when there is none, or a failure.
ReadAnswers(req) ==
  (IF remote[req.Id].present
   THEN {[rsp |-> ReadResponse([Id |-> req.Id,
                               Metadata |-> remote[req.Id].Metadata,
                               Version |-> "v1"]),
          err |-> NilErr]}
   ELSE {[rsp |-> NoResponse, err |-> StatusErr("NotFound")]})
  \cup {[rsp |-> NoResponse, err |-> e] : e \in RemoteFailures}

\* Write: on success the record is stored as sent; on failure nothing changes.
WriteAnswers(req) ==
  {[err |-> NilErr,
    store |-> [remote EXCEPT ![req.Resource.Id] = Stored(req.Resource.Metadata)]]}
  \cup {[err |-> e, store |-> remote] : e \in RemoteFailures}

\* Delete: on success a live record is removed, or marked for deletion when
\* it has finalizers; an absent or already marked record is left as it is.
WithDeletionTimestamp(m) ==
  MakeMap((DeletionTimestampKey :> "2024-06-01T00:00:00Z") @@ m.kv)

DeleteAnswers(req) ==
  (IF remote[req.Id].present /\ ~HasDeletionTimestamp(remote[req.Id].Metadata)
   THEN {[err |-> NilErr, store |-> [remote EXCEPT ![req.Id] = s]] :
           s \in {Absent, Stored(WithDeletionTimestamp(remote[req.Id].Metadata))}}
   ELSE {[err |-> NilErr, store |-> remote]})
  \cup {[err |-> e, store |-> remote] : e \in RemoteFailures}

\* ------------------------------------------------------------ namespace.go
\* Variant: a marker with an empty value is not counted.
isMarkedForDeletionNonEmpty(res) ==
  IF res.Metadata.isNil THEN FALSE
  ELSE /\ DeletionTimestampKey \in DOMAIN res.Metadata.kv
       /\ res.Metadata.kv[DeletionTimestampKey] # ""

isMarkedForDeletion(res) ==
  IF res.Metadata.isNil THEN FALSE
  ELSE DeletionTimestampKey \in DOMAIN res.Metadata.kv

\* EnsureDeleted, line 26
EnsureDeletedIsNoop(n) == n = WildcardNamespace \/ n = DefaultNamespaceName

\* EnsureDeleted, lines 31-35
EnsureDeletedReadRequest(a, n) == [kind |-> "Read", Id |-> ID(n, a)]

\* Variant: the deletion-in-progress case is missing from the switch.
EnsureDeletedCaseNoMarkCheck(r, e) ==
  IF Code(e) = "NotFound" THEN "notFound"
  ELSE IF e # NilErr THEN "readFailed"
  ELSE "delete"

\* EnsureDeleted, the switch of lines 37-47, cases in the code's order
EnsureDeletedCase(r, e) ==
  IF Code(e) = "NotFound" THEN "notFound"
  ELSE IF e # NilErr THEN "readFailed"
  ELSE IF isMarkedForDeletion(r.Resource) THEN "marked"
  ELSE "delete"

\* Variant: NotFound is reported like any other read error.
EnsureDeletedReturnNotFoundFails(c, e) ==
  IF c \in {"readFailed", "notFound"}
  THEN ErrorfW("namespace read failed: ", e) ELSE NilErr

\* EnsureDeleted, what lines 40, 43 and 46 return
EnsureDeletedReturn(c, e) ==
  IF c = "readFailed" THEN ErrorfW("namespace read failed: ", e) ELSE NilErr

\* Variant: the Delete carries the version that was read (a CAS delete).
DeleteRequestCAS(r) ==
  [kind |-> "Delete", Id |-> r.Resource.Id, Version |-> r.Resource.Version]

\* EnsureDeleted, line 49
DeleteRequest(r) == [kind |-> "Delete", Id |-> r.Resource.Id, Version |-> ""]

\* Variant: the Delete's error is dropped.
EnsureDeletedAfterDeleteSwallows(e) == NilErr

\* EnsureDeleted, lines 50-53
EnsureDeletedAfterDelete(e) ==
  IF e # NilErr THEN ErrorfW("namespace delete failed: ", e) ELSE NilErr

\* Variant: only the wildcard is skipped.
EnsureExistsIsNoopWildcardOnly(n) == n = WildcardNamespace

\* EnsureExists, line 63
EnsureExistsIsNoop(n) == n = WildcardNamespace \/ n = DefaultNamespaceName

\* Variant: the Read looks in a fixed partition, not in ap.
EnsureExistsReadRequestFixedPartition(a, n) == [kind |-> "Read", Id |-> ID(n, "ap1")]

\* EnsureExists, lines 68-72
EnsureExistsReadRequest(a, n) == [kind |-> "Read", Id |-> ID(n, a)]

\* Variant: the unexpected-error case is missing from the switch.
EnsureExistsCaseNoErrorCase(r, e) ==
  IF e = NilErr /\ isMarkedForDeletion(r.Resource) THEN "marked"
  ELSE IF e = NilErr THEN "found"
  ELSE "create"

\* Variant: a record marked for deletion counts as found.
EnsureExistsCaseMarkedIsFound(r, e) ==
  IF e = NilErr THEN "found"
  ELSE IF Code(e) # "NotFound" THEN "readFailed"
  ELSE "create"

\* Variant: a record marked for deletion counts as not found.
EnsureExistsCaseMarkedIsAbsent(r, e) ==
  IF e = NilErr /\ isMarkedForDeletion(r.Resource) THEN "create"
  ELSE IF e = NilErr THEN "found"
  ELSE IF Code(e) # "NotFound" THEN "readFailed"
  ELSE "create"

\* Variant: the found-and-live case is missing from the switch.
EnsureExistsCaseNoFoundCase(r, e) ==
  IF e = NilErr /\ isMarkedForDeletion(r.Resource) THEN "marked"
  ELSE IF e # NilErr /\ Code(e) # "NotFound" THEN "readFailed"
  ELSE "create"

\* EnsureExists, the switch of lines 74-84 and the fall-through to line 86
EnsureExistsCase(r, e) ==
  IF e = NilErr /\ isMarkedForDeletion(r.Resource) THEN "marked"
  ELSE IF e = NilErr THEN "found"
  ELSE IF Code(e) # "NotFound" THEN "readFailed"
  ELSE "create"

\* Variant: the message does not name the namespace.
DeletionInProgressNoName(n) ==
  [kind |-> "fmt", msg |-> <<"consul namespace deletion in progress">>]

\* fmt.Errorf("consul namespace %q deletion in progress", ns)
DeletionInProgress(n) ==
  [kind |-> "fmt",
   msg |-> <<"consul namespace ">> \o Quote(n) \o <<" deletion in progress">>]

\* Variant: a record found live is reported as created.
EnsureExistsReturnFoundCreated(c, n, e) ==
  IF c = "marked" THEN [created |-> FALSE, err |-> DeletionInProgress(n)]
  ELSE IF c = "found" THEN [created |-> TRUE, err |-> NilErr]
  ELSE [created |-> FALSE, err |-> ErrorfW("consul namespace read failed: ", e)]

\* Variant: a record found live is refused like one marked for deletion.
EnsureExistsReturnFoundRefused(c, n, e) ==
  IF c \in {"marked", "found"} THEN [created |-> FALSE, err |-> DeletionInProgress(n)]
  ELSE [created |-> FALSE, err |-> ErrorfW("consul namespace read failed: ", e)]

\* Variant: the read error is formatted with %v, which drops the cause.
EnsureExistsReturnNoWrap(c, n, e) ==
  IF c = "marked" THEN [created |-> FALSE, err |-> DeletionInProgress(n)]
  ELSE IF c = "found" THEN [created |-> FALSE, err |-> NilErr]
  ELSE [created |-> FALSE,
        err |-> [kind |-> "fmt", msg |-> <<"consul namespace read failed: ">> \o e.msg]]

\* EnsureExists, what lines 77, 80 and 83 return
EnsureExistsReturn(c, n, e) ==
  IF c = "marked" THEN [created |-> FALSE, err |-> DeletionInProgress(n)]
  ELSE IF c = "found" THEN [created |-> FALSE, err |-> NilErr]
  ELSE [created |-> FALSE, err |-> ErrorfW("consul namespace read failed: ", e)]

\* EnsureExists, line 88: anypb.New of a well-formed message does not fail
nsData == [Description |-> "Auto-generated by consul-k8s"]

\* Variant: the new record is written without its metadata.
WriteRequestNoMetadata(a, n) ==
  [kind |-> "Write",
   Resource |-> [Id |-> ID(n, a), Metadata |-> NilMap, Data |-> nsData]]

\* EnsureExists, lines 93-101
WriteRequest(a, n) ==
  [kind |-> "Write",
   Resource |-> [Id |-> ID(n, a),
                 Metadata |-> MakeMap(ExternalSource),
                 Data |-> nsData]]

\* Variant: created is reported whatever the Write answered.
EnsureExistsAfterWriteAlwaysCreated(e) ==
  IF e # NilErr
  THEN [created |-> TRUE, err |-> ErrorfW("consul namespace creation failed: ", e)]
  ELSE [created |-> TRUE, err |-> NilErr]

\* EnsureExists, lines 103-106
EnsureExistsAfterWrite(e) ==
  IF e # NilErr
  THEN [created |-> FALSE, err |-> ErrorfW("consul namespace creation failed: ", e)]
  ELSE [created |-> TRUE, err |-> NilErr]

\* ------------------------------------------------------------------ state
NoReturn == [created |-> FALSE, err |-> NilErr]
NoRead == [rsp |-> NoResponse, err |-> NilErr]
NoPrev == [op |-> "none", same |-> FALSE, created |-> FALSE, ok |-> FALSE]

\* What caller p keeps of its finished call while its next call, on
\* partition a and namespace n, runs.
Finished(p, a, n) ==
  [op |-> op[p], same |-> (ap[p] = a /\ ns[p] = n),
   created |-> ret[p].created, ok |-> ret[p].err = NilErr]

\* The store at the start: the wildcard is never a record, the default
\* namespace is always there, a managed name is in any state.
InitRecords(id) ==
  IF id.Name = WildcardNamespace THEN {Absent}
  ELSE IF id.Name = DefaultNamespaceName THEN {Stored(MakeMap(<<>>))}
  ELSE {Absent} \cup {Stored(m) : m \in InitMetadata}

Init ==
  /\ remote \in {f \in [Ids -> {Absent} \cup {Stored(m) : m \in InitMetadata}] :
                   \A id \in Ids : f[id] \in InitRecords(id)}
  /\ pc = [p \in Procs |-> "idle"]
  /\ op = [p \in Procs |-> "none"]
  /\ ap = [p \in Procs |-> ""]
  /\ ns = [p \in Procs |-> <<>>]
  /\ rsp = [p \in Procs |-> NoResponse]
  /\ err = [p \in Procs |-> NilErr]
  /\ ret = [p \in Procs |-> NoReturn]
  /\ calls = [p \in Procs |-> <<>>]
  /\ rd = [p \in Procs |-> NoRead]
  /\ prev = [p \in Procs |-> NoPrev]
  /\ ncalls = 0

\* A caller starts a call: its arguments are bound and its locals are fresh.
Enter(p, o, a, n) ==
  /\ pc[p] \in {"idle", "done"}
  /\ ncalls < MaxCalls
  /\ ncalls' = ncalls + 1
  /\ prev' = [prev EXCEPT ![p] = IF pc[p] = "done" THEN Finished(p, a, n) ELSE @]
  /\ op' = [op EXCEPT ![p] = o]
  /\ ap' = [ap EXCEPT ![p] = a]
  /\ ns' = [ns EXCEPT ![p] = n]
  /\ rsp' = [rsp EXCEPT ![p] = NoResponse]
  /\ err' = [err EXCEPT ![p] = NilErr]
  /\ calls' = [calls EXCEPT ![p] = <<>>]
  /\ rd' = [rd EXCEPT ![p] = NoRead]
  /\ ret' = [ret EXCEPT ![p] = NoReturn]
  /\ UNCHANGED remote

\* EnsureDeleted, lines 25-28: a reserved name returns nil at once.
EnsureDeleted(p, a, n) ==
  /\ Enter(p, "EnsureDeleted", a, n)
  /\ pc' = [pc EXCEPT ![p] = IF EnsureDeletedIsNoop(n) THEN "done" ELSE "read"]

\* EnsureDeleted, lines 31-46: the Read and the cases that return after it.
EnsureDeletedRead(p) ==
  /\ pc[p] = "read" /\ op[p] = "EnsureDeleted"
  /\ LET req == EnsureDeletedReadRequest(ap[p], ns[p]) IN
     \E ans \in ReadAnswers(req) :
       LET c == EnsureDeletedCase(ans.rsp, ans.err) IN
       /\ rsp' = [rsp EXCEPT ![p] = ans.rsp]
       /\ err' = [err EXCEPT ![p] = ans.err]
       /\ rd' = [rd EXCEPT ![p] = ans]
       /\ calls' = [calls EXCEPT ![p] = Append(@, req)]
       /\ IF c = "delete"
          THEN /\ pc' = [pc EXCEPT ![p] = "delete"]
               /\ UNCHANGED ret
          ELSE /\ pc' = [pc EXCEPT ![p] = "done"]
               /\ ret' = [ret EXCEPT ![p] =
                            [created |-> FALSE, err |-> EnsureDeletedReturn(c, ans.err)]]
  /\ UNCHANGED <<remote, op, ap, ns, prev, ncalls>>

\* EnsureDeleted, lines 47-54: the non-CAS Delete.
EnsureDeletedDelete(p) ==
  /\ pc[p] = "delete" /\ op[p] = "EnsureDeleted"
  /\ LET req == DeleteRequest(rsp[p]) IN
     \E ans \in DeleteAnswers(req) :
       /\ remote' = ans.store
       /\ err' = [err EXCEPT ![p] = ans.err]
       /\ calls' = [calls EXCEPT ![p] = Append(@, req)]
       /\ ret' = [ret EXCEPT ![p] =
                    [created |-> FALSE, err |-> EnsureDeletedAfterDelete(ans.err)]]
  /\ pc' = [pc EXCEPT ![p] = "done"]
  /\ UNCHANGED <<op, ap, ns, rsp, rd, prev, ncalls>>

\* EnsureExists, lines 62-65: a reserved name returns (false, nil) at once.
EnsureExists(p, a, n) ==
  /\ Enter(p, "EnsureExists", a, n)
  /\ pc' = [pc EXCEPT ![p] = IF EnsureExistsIsNoop(n) THEN "done" ELSE "read"]

\* EnsureExists, lines 68-84: the Read and the cases that return after it.
EnsureExistsRead(p) ==
  /\ pc[p] = "read" /\ op[p] = "EnsureExists"
  /\ LET req == EnsureExistsReadRequest(ap[p], ns[p]) IN
     \E ans \in ReadAnswers(req) :
       LET c == EnsureExistsCase(ans.rsp, ans.err) IN
       /\ rsp' = [rsp EXCEPT ![p] = ans.rsp]
       /\ err' = [err EXCEPT ![p] = ans.err]
       /\ rd' = [rd EXCEPT ![p] = ans]
       /\ calls' = [calls EXCEPT ![p] = Append(@, req)]
       /\ IF c = "create"
          THEN /\ pc' = [pc EXCEPT ![p] = "write"]
               /\ UNCHANGED ret
          ELSE /\ pc' = [pc EXCEPT ![p] = "done"]
               /\ ret' = [ret EXCEPT ![p] = EnsureExistsReturn(c, ns[p], ans.err)]
  /\ UNCHANGED <<remote, op, ap, ns, prev, ncalls>>

\* EnsureExists, lines 86-106: the Write of the new namespace.
EnsureExistsWrite(p) ==
  /\ pc[p] = "write" /\ op[p] = "EnsureExists"
  /\ LET req == WriteRequest(ap[p], ns[p]) IN
     \E ans \in WriteAnswers(req) :
       /\ remote' = ans.store
       /\ err' = [err EXCEPT ![p] = ans.err]
       /\ calls' = [calls EXCEPT ![p] = Append(@, req)]
       /\ ret' = [ret EXCEPT ![p] = EnsureExistsAfterWrite(ans.err)]
  /\ pc' = [pc EXCEPT ![p] = "done"]
  /\ UNCHANGED <<op, ap, ns, rsp, rd, prev, ncalls>>

\* The resource service finishes a deletion in progress: the record goes.
FinishDeletion(id) ==
  /\ remote[id].present /\ HasDeletionTimestamp(remote[id].Metadata)
  /\ remote' = [remote EXCEPT ![id] = Absent]
  /\ UNCHANGED <<pc, op, ap, ns, rsp, err, ret, calls, rd, prev, ncalls>>

Next ==
  \/ \E p \in Procs, a \in Partitions, n \in Namespaces : EnsureDeleted(p, a, n)
  \/ \E p \in Procs : EnsureDeletedRead(p)
  \/ \E p \in Procs : EnsureDeletedDelete(p)
  \/ \E p \in Procs, a \in Partitions, n \in Namespaces : EnsureExists(p, a, n)
  \/ \E p \in Procs : EnsureExistsRead(p)
  \/ \E p \in Procs : EnsureExistsWrite(p)
  \/ \E id \in Ids : FinishDeletion(id)

Spec == Init /\ [][Next]_vars

TypeOK ==
  /\ \A p \in Procs : pc[p] \in {"idle", "read", "delete", "write", "done"}
  /\ \A p \in Procs : Len(calls[p]) <= 2

\* ---------------------------------------------------- words of the claims
Reserved(n) == n = <<"*">> \/ n = <<"d", "e", "f", "a", "u", "l", "t">>
Managed(p) == pc[p] # "idle" /\ ~Reserved(ns[p])
Done(p, o) == pc[p] = "done" /\ op[p] = o
Target(p) ==
  [Name |-> ns[p],
   Type |-> [Group |-> "tenancy", GroupVersion |-> "v2beta1", Kind |-> "Namespace"],
   Tenancy |-> [Partition |-> ap[p]]]
TheRead(p) == [kind |-> "Read", Id |-> Target(p)]

\* What the running call's Read answered.
HasRead(p) == rd[p] # NoRead
ReadNotFound(p) == rd[p].err.kind = "status" /\ rd[p].err.code = "NotFound"
ReadFailed(p) == rd[p].err.kind \in {"status", "plain"} /\ ~ReadNotFound(p)
ReadRecord(p) == ~rd[p].rsp.isNil
CarriesMarker(m) == ~m.isNil /\ \E k \in DOMAIN m.kv : k = "deletionTimestamp"
ReadMarked(p) == ReadRecord(p) /\ CarriesMarker(rd[p].rsp.Resource.Metadata)
ReadLive(p) == ReadRecord(p) /\ ~CarriesMarker(rd[p].rsp.Resource.Metadata)

\* The record of an identity is absent or marked for deletion.
AbsentOrMarked(id) == ~remote[id].present \/ CarriesMarker(remote[id].Metadata)

\* s occurs in m as a run of consecutive elements.
Contains(m, s) ==
  \E i \in 1..(Len(m) - Len(s) + 1) : SubSeq(m, i, i + Len(s) - 1) = s

\* C1: for every partition and every reserved name (wildcard or default),
\* EnsureDeleted returns nil and EnsureExists returns (false, nil) at once,
\* with no Read, Write or Delete issued, whatever the store holds.
C1_ReservedIsNoop ==
  \A p \in Procs :
    (pc[p] # "idle" /\ Reserved(ns[p])) =>
      /\ pc[p] = "done"
      /\ ret[p] = [created |-> FALSE, err |-> NilErr]
      /\ calls[p] = <<>>

C1_Witness ==
  \E p, q \in Procs :
    /\ Done(p, "EnsureDeleted") /\ ns[p] = <<"*">>
    /\ Done(q, "EnsureExists") /\ ns[q] = <<"d", "e", "f", "a", "u", "l", "t">>
    /\ ap[p] # ap[q]
    /\ remote[Target(q)].present
    /\ calls[p] = <<>> /\ calls[q] = <<>>

\* C3: an EnsureDeleted call whose Read answers not-found, or a record that
\* carries the deletion marker, returns nil and issues no Delete; so the
\* second of two calls in a row does not fail on what the first left.
C3_DeletedIdempotent ==
  \A p \in Procs :
    (Done(p, "EnsureDeleted") /\ Managed(p) /\ (ReadNotFound(p) \/ ReadMarked(p))) =>
      /\ ret[p].err = NilErr
      /\ calls[p] = <<TheRead(p)>>

C3_Witness ==
  \E p \in Procs :
    /\ Done(p, "EnsureDeleted") /\ Managed(p) /\ ReadMarked(p)
    /\ prev[p].op = "EnsureDeleted" /\ prev[p].same /\ prev[p].ok
    /\ ret[p].err = NilErr

\* C4: an EnsureExists call whose Read answers a record without the deletion
\* marker returns (false, nil) and issues no Write; so the second of two
\* calls in a row, reading what the first wrote, creates nothing.
C4_ExistsIdempotent ==
  \A p \in Procs :
    (Done(p, "EnsureExists") /\ Managed(p) /\ ReadLive(p)) =>
      /\ ret[p] = [created |-> FALSE, err |-> NilErr]
      /\ calls[p] = <<TheRead(p)>>

C4_Witness ==
  \E p \in Procs :
    /\ Done(p, "EnsureExists") /\ Managed(p) /\ ReadLive(p)
    /\ prev[p].op = "EnsureExists" /\ prev[p].same /\ prev[p].created
    /\ rd[p].rsp.Resource.Metadata.kv = ("external-source" :> "kubernetes")
    /\ ret[p] = [created |-> FALSE, err |-> NilErr]

\* C5: an EnsureExists call whose Read answers a record that carries the
\* deletion marker returns created=false with an error whose message
\* contains the namespace name, and issues neither Write nor Delete.
C5_MarkedRefusesCreate ==
  \A p \in Procs :
    (Done(p, "EnsureExists") /\ Managed(p) /\ ReadMarked(p)) =>
      /\ ret[p].created = FALSE
      /\ ret[p].err # NilErr
      /\ Contains(ret[p].err.msg, ns[p])
      /\ calls[p] = <<TheRead(p)>>

C5_Witness ==
  \E p \in Procs :
    /\ Done(p, "EnsureExists") /\ Managed(p) /\ ReadMarked(p)
    /\ ret[p].err.msg = <<"consul namespace ", "\"", "n", "s", "1", "\"",
                          " deletion in progress">>

\* C2 (as stated): an EnsureDeleted call whose Read runs while the record is
\* absent or marked for deletion returns without an error.
C2_SteadyNeverErrors ==
  [][\A p \in Procs :
       (pc[p] = "read" /\ op[p] = "EnsureDeleted" /\ pc'[p] # "read"
        /\ AbsentOrMarked(Target(p)))
       => (pc'[p] = "done" /\ ret'[p].err = NilErr)]_vars

\* C2 (amended): a step of EnsureDeleted never takes a record out of
\* "absent or marked for deletion"; a call that returns nil leaves its record
\* in that state at the moment it returns; and a call whose Read runs in that
\* state issues no Delete and returns either nil or, when the Read itself
\* failed with an error other than NotFound, that read error wrapped.
C2_DeletedConverges ==
  [][\A p \in Procs :
       (op[p] = "EnsureDeleted" /\ pc[p] \in {"read", "delete"} /\ pc'[p] # pc[p]) =>
         /\ \A id \in Ids : AbsentOrMarked(id) => AbsentOrMarked(id)'
         /\ (pc'[p] = "done" /\ ret'[p].err = NilErr) => AbsentOrMarked(Target(p))'
         /\ (pc[p] = "read" /\ AbsentOrMarked(Target(p))) =>
              /\ pc'[p] = "done"
              /\ calls'[p] = <<TheRead(p)>>
              /\ remote' = remote
              /\ \/ ret'[p].err = NilErr
                 \/ /\ ReadFailed(p)'
                    /\ ret'[p].err.kind = "wrap"
                    /\ ret'[p].err.cause = rd'[p].err]_vars

C2_Witness ==
  \E p, q \in Procs :
    /\ p # q
    /\ Done(p, "EnsureDeleted") /\ Done(q, "EnsureDeleted")
    /\ Managed(p) /\ Target(p) = Target(q)
    /\ Len(calls[p]) = 2 /\ Len(calls[q]) = 2
    /\ ret[p].err = NilErr /\ ret[q].err = NilErr
    /\ remote[Target(p)].present /\ AbsentOrMarked(Target(p))

\* The Write that EnsureExists is to send for caller p's arguments.
TheWrite(p) ==
  [Id |-> Target(p),
   Metadata |-> [isNil |-> FALSE, kv |-> ("external-source" :> "kubernetes")]]
IsTheWrite(p, req) ==
  /\ req.kind = "Write"
  /\ req.Resource.Id = TheWrite(p).Id
  /\ req.Resource.Metadata = TheWrite(p).Metadata

\* C6 (as stated): an EnsureExists call whose Read answers not-found issues
\* exactly one Write, of the namespace's identity with metadata
\* {"external-source": "kubernetes"}, and returns (true, nil).
C6_AbsentIsCreated ==
  \A p \in Procs :
    (Done(p, "EnsureExists") /\ Managed(p) /\ ReadNotFound(p)) =>
      /\ Len(calls[p]) = 2 /\ calls[p][1] = TheRead(p) /\ IsTheWrite(p, calls[p][2])
      /\ ret[p] = [created |-> TRUE, err |-> NilErr]

\* C6 (amended): an EnsureExists call whose Read answers not-found issues
\* exactly one Write, of the namespace's identity with metadata
\* {"external-source": "kubernetes"}; it returns (true, nil) when that Write
\* succeeds and created=false with the Write's error wrapped when it fails.
C6_AbsentIsWritten ==
  \A p \in Procs :
    (op[p] = "EnsureExists" /\ Managed(p) /\ ReadNotFound(p)) =>
      /\ pc[p] \in {"write", "done"}
      /\ pc[p] = "write" => calls[p] = <<TheRead(p)>>
      /\ pc[p] = "done" =>
           /\ Len(calls[p]) = 2 /\ calls[p][1] = TheRead(p)
           /\ IsTheWrite(p, calls[p][2])
           /\ IF err[p] = NilErr
              THEN ret[p] = [created |-> TRUE, err |-> NilErr]
              ELSE /\ ret[p].created = FALSE
                   /\ ret[p].err.kind = "wrap" /\ ret[p].err.cause = err[p]

C6_Witness ==
  \E p \in Procs :
    /\ Done(p, "EnsureExists") /\ Managed(p) /\ ReadNotFound(p)
    /\ ap[p] = "ap2"
    /\ IsTheWrite(p, calls[p][2])
    /\ ret[p] = [created |-> TRUE, err |-> NilErr]
    /\ remote[Target(p)] = [present |-> TRUE, Metadata |-> TheWrite(p).Metadata]

\* The Delete that EnsureDeleted is to send for caller p's arguments.
TheDelete(p) == [kind |-> "Delete", Id |-> Target(p), Version |-> ""]

\* C7 (as stated): an EnsureDeleted call whose Read answers a record without
\* the deletion marker issues exactly one Delete, with the empty version,
\* and returns nil.
C7_LiveIsDeleted ==
  \A p \in Procs :
    (Done(p, "EnsureDeleted") /\ Managed(p) /\ ReadLive(p)) =>
      /\ calls[p] = <<TheRead(p), TheDelete(p)>>
      /\ ret[p].err = NilErr

\* C7 (amended): an EnsureDeleted call whose Read answers a record without
\* the deletion marker issues exactly one Delete, with the empty version; it
\* returns nil when that Delete succeeds and the Delete's error wrapped when
\* it fails.
C7_LiveGetsDelete ==
  \A p \in Procs :
    (op[p] = "EnsureDeleted" /\ Managed(p) /\ ReadLive(p)) =>
      /\ pc[p] \in {"delete", "done"}
      /\ pc[p] = "delete" => calls[p] = <<TheRead(p)>>
      /\ pc[p] = "done" =>
           /\ calls[p] = <<TheRead(p), TheDelete(p)>>
           /\ IF err[p] = NilErr
              THEN ret[p].err = NilErr
              ELSE ret[p].err.kind = "wrap" /\ ret[p].err.cause = err[p]

C7_Witness ==
  \E p \in Procs :
    /\ Done(p, "EnsureDeleted") /\ Managed(p) /\ ReadLive(p)
    /\ calls[p] = <<TheRead(p), TheDelete(p)>>
    /\ ret[p].err = NilErr
    /\ AbsentOrMarked(Target(p))

\* C8: when the Read fails with an error whose code is not NotFound, the
\* call returns at once an error that keeps that error, unchanged, as its
\* cause, under "namespace read failed: " in EnsureDeleted and "consul
\* namespace read failed: " in EnsureExists; created is false; and neither a
\* Write nor a Delete is issued.
C8_ReadErrorWrapped ==
  \A p \in Procs :
    (HasRead(p) /\ ReadFailed(p)) =>
      /\ pc[p] = "done"
      /\ calls[p] = <<TheRead(p)>>
      /\ ret[p].created = FALSE
      /\ ret[p].err.kind = "wrap"
      /\ ret[p].err.cause = rd[p].err
      /\ ret[p].err.msg =
           <<IF op[p] = "EnsureDeleted" THEN "namespace read failed: "
             ELSE "consul namespace read failed: ">> \o rd[p].err.msg

C8_Witness ==
  \E p, q \in Procs :
    /\ Done(p, "EnsureDeleted") /\ Done(q, "EnsureExists")
    /\ rd[p].err = [kind |-> "plain", msg |-> <<"context canceled">>]
    /\ rd[q].err.kind = "status" /\ rd[q].err.code = "Unavailable"
    /\ ret[p].err.cause = rd[p].err /\ ret[q].err.cause = rd[q].err

\* C9: isMarkedForDeletion is true exactly when the record's metadata has the
\* key "deletionTimestamp", whatever its value; it is false for a nil map,
\* an empty map, and a map without the key.
C9_MarkedIffKey ==
  \A p \in Procs :
    ReadRecord(p) =>
      LET m == rd[p].rsp.Resource.Metadata IN
      /\ isMarkedForDeletion(rd[p].rsp.Resource) = CarriesMarker(m)
      /\ (m.isNil \/ m.kv = <<>>) => ~isMarkedForDeletion(rd[p].rsp.Resource)
      /\ (~m.isNil /\ m.kv # <<>> /\ DOMAIN m.kv = {"deletionTimestamp"})
           => isMarkedForDeletion(rd[p].rsp.Resource)

C9_Witness ==
  \E p, q \in Procs :
    /\ ReadRecord(p) /\ ReadRecord(q)
    /\ rd[p].rsp.Resource.Metadata = [isNil |-> FALSE, kv |-> ("deletionTimestamp" :> "")]
    /\ isMarkedForDeletion(rd[p].rsp.Resource)
    /\ rd[q].rsp.Resource.Metadata = [isNil |-> TRUE, kv |-> <<>>]
    /\ ~isMarkedForDeletion(rd[q].rsp.Resource)

\* C10: nothing keeps two concurrent EnsureExists calls on one identity
\* apart: both may read not-found and both then issue the Write, and each
\* returns created=true exactly when its own Write was answered without error.
C10_CreatedByOwnWrite ==
  \A p \in Procs :
    (op[p] = "EnsureExists" /\ Managed(p) /\ ReadNotFound(p)) =>
      /\ pc[p] = "write" => ENABLED EnsureExistsWrite(p)
      /\ pc[p] = "done" =>
           /\ Len(calls[p]) = 2 /\ calls[p][2].kind = "Write"
           /\ ret[p].created = (err[p] = NilErr)

C10_Witness ==
  \E p, q \in Procs :
    /\ p # q
    /\ Done(p, "EnsureExists") /\ Done(q, "EnsureExists")
    /\ Managed(p) /\ Target(p) = Target(q)
    /\ ReadNotFound(p) /\ ReadNotFound(q)
    /\ calls[p][2].kind = "Write" /\ calls[q][2].kind = "Write"
    /\ calls[p][2].Resource.Id = calls[q][2].Resource.Id
    /\ ret[p].created /\ ~ret[q].created

\* The kinds of the requests caller p's running call has issued.
Kinds(p) == [i \in 1..Len(calls[p]) |-> calls[p][i].kind]
SecondKind(p) == IF op[p] = "EnsureDeleted" THEN "Delete" ELSE "Write"

\* C11: a call issues at most two remote calls, one after the other: first a
\* Read, then at most one more, a Delete in EnsureDeleted and a Write in
\* EnsureExists; EnsureDeleted issues no Write, EnsureExists no Delete; and
\* after a remote call has failed nothing is issued again in that call.
C11_AtMostReadThenAct ==
  [][\A p \in Procs :
       calls'[p] # calls[p] =>
         \/ calls'[p] = <<>>
         \/ /\ Len(calls'[p]) = Len(calls[p]) + 1
            /\ SubSeq(calls'[p], 1, Len(calls[p])) = calls[p]
            /\ Len(calls'[p]) <= 2
            /\ Kinds(p)' \in {<<"Read">>, <<"Read", SecondKind(p)>>}
            /\ Len(calls[p]) = 1 =>
                 IF op[p] = "EnsureDeleted" THEN err[p] = NilErr
                 ELSE err[p].kind = "status" /\ err[p].code = "NotFound"
            /\ (Len(calls'[p]) = 2 \/ ReadFailed(p)') => pc'[p] = "done"]_vars

C11_Witness ==
  \E p, q \in Procs :
    /\ Done(p, "EnsureDeleted") /\ Kinds(p) = <<"Read", "Delete">>
    /\ err[p] # NilErr
    /\ Done(q, "EnsureExists") /\ Kinds(q) = <<"Read", "Write">>
    /\ err[q] # NilErr

\* C12: a failed Write makes EnsureExists return created=false with the
\* Write's error as the cause under "consul namespace creation failed: "; a
\* failed Delete makes EnsureDeleted return the Delete's error as the cause
\* under "namespace delete failed: "; the call is over with that error.
C12_ActErrorWrapped ==
  \A p \in Procs :
    (Len(calls[p]) = 2 /\ err[p] # NilErr) =>
      /\ pc[p] = "done"
      /\ ret[p].created = FALSE
      /\ ret[p].err.kind = "wrap"
      /\ ret[p].err.cause = err[p]
      /\ ret[p].err.msg =
           <<IF calls[p][2].kind = "Write" THEN "consul namespace creation failed: "
             ELSE "namespace delete failed: ">> \o err[p].msg

C12_Witness ==
  \E p, q \in Procs :
    /\ Done(p, "EnsureDeleted") /\ Len(calls[p]) = 2
    /\ err[p].kind = "status" /\ err[p].code = "Unavailable"
    /\ ret[p].err.cause = err[p]
    /\ ~AbsentOrMarked(Target(p))
    /\ Done(q, "EnsureExists") /\ Len(calls[q]) = 2
    /\ err[q] = [kind |-> "plain", msg |-> <<"context canceled">>]
    /\ ret[q].err.cause = err[q] /\ ~ret[q].created

\* The record of an identity exists and is not marked for deletion.
Live(id) == remote[id].present /\ ~CarriesMarker(remote[id].Metadata)

\* C13: at the step in which an EnsureExists call returns without an error,
\* the record of its identity exists and is not marked for deletion; and a
\* call that has read a record carrying the deletion marker does not return
\* without an error.
C13_SuccessMeansLive ==
  [][\A p \in Procs :
       (op[p] = "EnsureExists" /\ pc[p] \in {"read", "write"} /\ pc'[p] = "done") =>
         /\ ret'[p].err = NilErr => Live(Target(p))'
         /\ ReadMarked(p)' => (ret'[p].err # NilErr /\ ~ret'[p].created)]_vars

C13_Witness ==
  \E p, q \in Procs :
    /\ Done(p, "EnsureExists") /\ Managed(p) /\ ReadNotFound(p)
    /\ ret[p] = [created |-> TRUE, err |-> NilErr] /\ Live(Target(p))
    /\ Done(q, "EnsureExists") /\ Managed(q) /\ ReadLive(q)
    /\ ret[q] = [created |-> FALSE, err |-> NilErr] /\ Live(Target(q))

Marked(id) == remote[id].present /\ CarriesMarker(remote[id].Metadata)
LeavesRead(p) == pc[p] = "read" /\ pc'[p] # "read"

\* C14 (as stated): while the record is marked for deletion, an EnsureExists
\* call on it fails and an EnsureDeleted call on it returns nil without a
\* Delete, and neither changes the store; when the record is absent, an
\* EnsureExists call goes on to the Write, which creates the record and
\* returns (true, nil).
C14_TriStateAlways ==
  [][\A p \in Procs :
       /\ (LeavesRead(p) /\ Marked(Target(p))) =>
            /\ pc'[p] = "done" /\ remote' = remote
            /\ calls'[p] = <<TheRead(p)>>
            /\ IF op[p] = "EnsureExists" THEN ret'[p].err # NilErr
               ELSE ret'[p].err = NilErr
       /\ (LeavesRead(p) /\ op[p] = "EnsureExists" /\ ~remote[Target(p)].present) =>
            pc'[p] = "write"
       /\ (pc[p] = "write" /\ pc'[p] = "done") =>
            /\ ret'[p] = [created |-> TRUE, err |-> NilErr]
            /\ Live(Target(p))']_vars

\* C14 (amended): while the record is marked for deletion, an EnsureExists
\* call on it fails, and an EnsureDeleted call on it issues no Delete and
\* returns nil unless its Read itself failed; neither changes the store.
\* When the record is absent, an EnsureExists call whose Read is answered
\* not-found goes on to the Write; when the Write succeeds the record is
\* created and (true, nil) returned, and when it fails the store is
\* unchanged and created is false.
C14_TriState ==
  [][\A p \in Procs :
       /\ (LeavesRead(p) /\ Marked(Target(p))) =>
            /\ pc'[p] = "done" /\ remote' = remote
            /\ calls'[p] = <<TheRead(p)>>
            /\ ReadMarked(p)' \/ ReadFailed(p)'
            /\ IF op[p] = "EnsureExists"
               THEN ret'[p].err # NilErr /\ ~ret'[p].created
               ELSE ret'[p].err = NilErr \/ ReadFailed(p)'
       /\ (LeavesRead(p) /\ op[p] = "EnsureExists" /\ ~remote[Target(p)].present) =>
            \/ ReadNotFound(p)' /\ pc'[p] = "write" /\ remote' = remote
            \/ ReadFailed(p)' /\ pc'[p] = "done" /\ ret'[p].err # NilErr
       /\ (pc[p] = "write" /\ pc'[p] = "done") =>
            IF err'[p] = NilErr
            THEN ret'[p] = [created |-> TRUE, err |-> NilErr] /\ Live(Target(p))'
            ELSE ~ret'[p].created /\ ret'[p].err # NilErr /\ remote' = remote]_vars

C14_Witness ==
  \E p, q \in Procs :
    /\ p # q /\ Target(p) = Target(q)
    /\ Done(q, "EnsureExists") /\ Managed(q) /\ ReadMarked(q)
    /\ ret[q].err # NilErr /\ calls[q] = <<TheRead(q)>>
    /\ Done(p, "EnsureExists") /\ ReadNotFound(p)
    /\ ret[p] = [created |-> TRUE, err |-> NilErr]
    /\ Live(Target(p))

\* C15: a Write is the second request of its call, after a Read of the same
\* identity that was answered NotFound; a Delete is the second request of
\* its call, after a Read of the same identity that was answered with a
\* record without the deletion marker, and it names that record's identity.
\* So a call that has read a record issues no Write, and a call that has
\* read not-found issues no Delete.
C15_ActFollowsItsRead ==
  \A p \in Procs :
    /\ \A i \in 1..Len(calls[p]) :
         /\ calls[p][i].kind = "Write" =>
              /\ i = 2 /\ calls[p][1].kind = "Read"
              /\ calls[p][1].Id = calls[p][2].Resource.Id
              /\ calls[p][1].Id = Target(p)
              /\ ReadNotFound(p)
         /\ calls[p][i].kind = "Delete" =>
              /\ i = 2 /\ calls[p][1].kind = "Read"
              /\ ReadLive(p)
              /\ calls[p][2].Id = rd[p].rsp.Resource.Id
              /\ calls[p][1].Id = calls[p][2].Id
              /\ calls[p][1].Id = Target(p)
    /\ ReadRecord(p) => \A i \in 1..Len(calls[p]) : calls[p][i].kind # "Write"
    /\ ReadNotFound(p) => \A i \in 1..Len(calls[p]) : calls[p][i].kind # "Delete"

C15_Witness ==
  \E p, q \in Procs :
    /\ Done(p, "EnsureExists") /\ ap[p] = "ap2"
    /\ Kinds(p) = <<"Read", "Write">> /\ ReadNotFound(p)
    /\ Done(q, "EnsureDeleted") /\ ap[q] = "ap2"
    /\ Kinds(q) = <<"Read", "Delete">> /\ ReadLive(q)
    /\ calls[q][2].Id = rd[q].rsp.Resource.Id

\* C16: EnsureExists returns created=true exactly when the call issued a
\* Write and that Write was answered without an error; created is false on
\* every return with an error and on every return after a record was read.
C16_CreatedIffWriteOk ==
  \A p \in Procs :
    Done(p, "EnsureExists") =>
      /\ ret[p].created =
           (/\ Len(calls[p]) = 2
            /\ calls[p][2].kind = "Write"
            /\ err[p] = NilErr)
      /\ ret[p].err # NilErr => ~ret[p].created
      /\ (HasRead(p) /\ ReadRecord(p)) => ~ret[p].created

C16_Witness ==
  \E p, q \in Procs :
    /\ Done(p, "EnsureExists") /\ ret[p].created /\ Kinds(p) = <<"Read", "Write">>
    /\ Done(q, "EnsureExists") /\ ReadLive(q) /\ ~ret[q].created
    /\ ret[q].err = NilErr

\* C17: nothing is held between a call's Read and its act: while an
\* EnsureDeleted call that has read the live record waits to send its
\* Delete, an EnsureExists call that reads the same live record returns
\* (false, nil) having issued only its Read, and the Delete can still be
\* sent and is sent, although EnsureExists reported success.
C17_NothingLocked ==
  \A p, q \in Procs :
    (/\ Done(p, "EnsureExists") /\ Managed(p) /\ ReadLive(p)
     /\ op[q] = "EnsureDeleted" /\ Target(q) = Target(p) /\ Managed(q)
     /\ ReadLive(q)) =>
       /\ ret[p] = [created |-> FALSE, err |-> NilErr]
       /\ calls[p] = <<TheRead(p)>>
       /\ pc[q] = "delete" => ENABLED EnsureDeletedDelete(q)
       /\ pc[q] = "done" => calls[q] = <<TheRead(q), TheDelete(q)>>

C17_Witness ==
  \E p, q \in Procs :
    /\ Done(p, "EnsureExists") /\ Managed(p) /\ ReadLive(p)
    /\ ret[p] = [created |-> FALSE, err |-> NilErr]
    /\ Done(q, "EnsureDeleted") /\ Target(q) = Target(p) /\ ReadLive(q)
    /\ Kinds(q) = <<"Read", "Delete">> /\ ret[q].err = NilErr
    /\ ~remote[Target(p)].present

====
